---- MODULE Spec2Model ----
(***************************************************************************)
(* Model of the cBAD dataset builder of dhSegment (exps/cbad/utils.py):    *)
(* cbad_set_generator and the functions it calls (get_page_filename,       *)
(* get_image_label_basename, annotate_one_page, save_and_resize,           *)
(* _compute_statistics_line_height, _is_outlier) and split_set_for_eval.   *)
(*                                                                         *)
(* Conventions.  A path or file name is a sequence of one-character        *)
(* strings.  A point is a record [x, y].  A raster channel is the set of   *)
(* its non-zero pixels <<x, y>>; a 3-channel raster is [shape, ch] with    *)
(* shape = <<height, width>>.  Floating point values are exact rationals,  *)
(* kept as integer numerators over the stated denominators.                *)
(***************************************************************************)
EXTENDS Integers, Sequences, FiniteSets, TLC

VARIABLES
    input_images,           \* image files present under input_dir/<collection>/
    page_files,             \* existing PAGE xml files: path -> parsed page
    img_shape,              \* <<height, width>> of the decoded images
    args,                   \* the arguments of cbad_set_generator
    cv2_empty_ok,           \* whether the cv2 build draws nothing for an empty point array
    image_filenames_list,   \* result of glob, in glob's order
    pos,                    \* number of images the loop has consumed
    tuples_images_labels,   \* manifest accumulator
    out_files,              \* files written under output_dir: path -> content
    status,                 \* "init", "running", "done", "raised"
    annot,                  \* locals of the last annotate_one_page call
    page_class,             \* argument of _compute_statistics_line_height
    stats,                  \* its result
    df_data,                \* rows of the manifest read by split_set_for_eval
    df_eval,                \* row indexes written to eval_data.csv, in order
    df_train,               \* row indexes written to train_data.csv, in order
    split_done,             \* split_set_for_eval has run
    rs_img,                 \* shape of the array given to save_and_resize
    rs_size,                \* its size argument (None or Some(size))
    rs_out                  \* what save_and_resize wrote

buildVars == <<input_images, page_files, img_shape, args, cv2_empty_ok,
               image_filenames_list, pos, tuples_images_labels, out_files,
               status, annot>>
statVars == <<page_class, stats>>
splitVars == <<df_data, df_eval, df_train, split_done>>
resizeVars == <<rs_img, rs_size, rs_out>>
vars == <<buildVars, statVars, splitVars, resizeVars>>

----------------------------------------------------------------------------
(* Arithmetic and sequence helpers *)

Abs(n) == IF n < 0 THEN -n ELSE n

Max2(a, b) == IF a >= b THEN a ELSE b

Min2(a, b) == IF a <= b THEN a ELSE b

SetMax(S) == CHOOSE m \in S : \A n \in S : n <= m

SetMin(S) == CHOOSE m \in S : \A n \in S : m <= n

Range(s) == {s[i] : i \in 1..Len(s)}

RECURSIVE SeqSum(_)
SeqSum(s) == IF s = <<>> THEN 0 ELSE Head(s) + SeqSum(Tail(s))

RECURSIVE Flatten(_)
Flatten(ss) == IF ss = <<>> THEN <<>> ELSE Head(ss) \o Flatten(Tail(ss))

\* floor(sqrt(n)) for n >= 0
ISqrt(n) == CHOOSE k \in 0..n : k * k <= n /\ (k + 1) * (k + 1) > n

\* the sequences of length <= n over S
SeqsUpTo(S, n) == UNION {[1..k -> S] : k \in 0..n}

\* the orderings of a finite set
Orderings(S) == {s \in [1..Cardinality(S) -> S] : Range(s) = S}

RECURSIVE InsertSorted(_, _)
InsertSorted(v, t) ==
    IF t = <<>> THEN <<v>>
    ELSE IF v <= Head(t) THEN <<v>> \o t
    ELSE <<Head(t)>> \o InsertSorted(v, Tail(t))

\* s sorted ascending (the ordering np.median and Index.difference use)
RECURSIVE SortedSeq(_)
SortedSeq(s) == IF s = <<>> THEN <<>> ELSE InsertSorted(Head(s), SortedSeq(Tail(s)))

\* twice np.median(s), s non-empty
Median2(s) ==
    LET t == SortedSeq(s)
        n == Len(s)
    IN  IF n % 2 = 1 THEN 2 * t[(n + 1) \div 2]
        ELSE t[n \div 2] + t[n \div 2 + 1]

----------------------------------------------------------------------------
(* Constants of the module *)

TARGET_HEIGHT == 1100

DRAWING_COLOR_BASELINES == <<255, 0, 0>>

DRAWING_COLOR_LINES == <<0, 255, 0>>

DRAWING_COLOR_POINTS == <<0, 0, 255>>

\* np.argmax of a colour triple: 0-based index of the first maximal component
ArgMax(c) == (CHOOSE i \in 1..3 : /\ \A j \in 1..3 : c[j] <= c[i]
                                  /\ \A j \in 1..(i - 1) : c[j] < c[i]) - 1

----------------------------------------------------------------------------
(* Paths: os.path and str operations *)

Sep == "/"

\* os.path.join(a, b) for a relative b and a non-empty a without trailing separator
PathJoin(a, b) == a \o <<Sep>> \o b

LastIndexOf(s, c) == IF \E i \in 1..Len(s) : s[i] = c
                     THEN SetMax({i \in 1..Len(s) : s[i] = c}) ELSE 0

FirstIndexOf(s, c) == IF \E i \in 1..Len(s) : s[i] = c
                      THEN SetMin({i \in 1..Len(s) : s[i] = c}) ELSE 0

\* os.path.split(p)[0]; the paths of the model hold no doubled separator
Dirname(p) == SubSeq(p, 1, LastIndexOf(p, Sep) - 1)

\* os.path.split(p)[1]
Basename(p) == SubSeq(p, LastIndexOf(p, Sep) + 1, Len(p))

\* s[:-4]
DropLast4(s) == SubSeq(s, 1, Len(s) - 4)

\* s.split(c)[0]
SplitFirst(s, c) == IF FirstIndexOf(s, c) = 0 THEN s
                    ELSE SubSeq(s, 1, FirstIndexOf(s, c) - 1)

\* s.split(c)[-1]
SplitLast(s, c) == SubSeq(s, LastIndexOf(s, c) + 1, Len(s))

\* os.path.splitext(s)[0] of a base name that does not start with a dot
SplitExtStem(s) == IF LastIndexOf(s, ".") <= 1 THEN s
                   ELSE SubSeq(s, 1, LastIndexOf(s, ".") - 1)

ExtXml == <<".", "x", "m", "l">>

ExtJpg == <<".", "j", "p", "g">>

ExtJpeg == <<".", "j", "p", "e", "g">>

ExtPng == <<".", "p", "n", "g">>

\* fnmatch of a base name against '*.jp*g'
MatchesJpG(name) ==
    /\ Len(name) >= 4
    /\ name[1] # "."
    /\ name[Len(name)] = "g"
    /\ \E i \in 1..(Len(name) - 3) :
          name[i] = "." /\ name[i + 1] = "j" /\ name[i + 2] = "p"

\* the path get_page_filename computes and tests for existence
get_page_filename(image_filename) ==
    PathJoin(PathJoin(Dirname(image_filename), <<"p", "a", "g", "e">>),
             DropLast4(Basename(image_filename)) \o ExtXml)

\* get_image_label_basename
get_image_label_basename(image_filename) ==
    LET directory == Dirname(image_filename)
        basename == Basename(image_filename)
        acronym == SplitFirst(SplitLast(directory, Sep), "_")
    IN  acronym \o <<"_">> \o SplitFirst(basename, ".")

----------------------------------------------------------------------------
(* Class table (cbad_set_generator, l.203-227) *)

VecAdd(a, b) == [i \in 1..3 |-> a[i] + b[i]]

ClassesMutant(db, dl, de) ==
    <<<<0, 0, 0>>>>
    \o (IF db THEN <<DRAWING_COLOR_BASELINES>> ELSE <<>>)
    \o (IF dl THEN <<DRAWING_COLOR_LINES>> ELSE <<>>)
    \o (IF de THEN <<DRAWING_COLOR_POINTS>> ELSE <<>>)
    \o (IF db /\ de THEN <<VecAdd(DRAWING_COLOR_BASELINES, DRAWING_COLOR_POINTS)>> ELSE <<>>)
    \o (IF db /\ dl THEN <<VecAdd(DRAWING_COLOR_BASELINES, DRAWING_COLOR_LINES)>> ELSE <<>>)
    \o (IF dl /\ de THEN <<VecAdd(DRAWING_COLOR_LINES, DRAWING_COLOR_POINTS)>> ELSE <<>>)
    \o (IF db /\ dl /\ de
        THEN <<VecAdd(VecAdd(DRAWING_COLOR_BASELINES, DRAWING_COLOR_LINES),
                      DRAWING_COLOR_POINTS)>>
        ELSE <<>>)

Classes(db, dl, de) ==
    <<<<0, 0, 0>>>>
    \o (IF db THEN <<DRAWING_COLOR_BASELINES>> ELSE <<>>)
    \o (IF dl THEN <<DRAWING_COLOR_LINES>> ELSE <<>>)
    \o (IF de THEN <<DRAWING_COLOR_POINTS>> ELSE <<>>)
    \o (IF db /\ dl THEN <<VecAdd(DRAWING_COLOR_BASELINES, DRAWING_COLOR_LINES)>> ELSE <<>>)
    \o (IF db /\ de THEN <<VecAdd(DRAWING_COLOR_BASELINES, DRAWING_COLOR_POINTS)>> ELSE <<>>)
    \o (IF dl /\ de THEN <<VecAdd(DRAWING_COLOR_LINES, DRAWING_COLOR_POINTS)>> ELSE <<>>)
    \o (IF db /\ dl /\ de
        THEN <<VecAdd(VecAdd(DRAWING_COLOR_BASELINES, DRAWING_COLOR_LINES),
                      DRAWING_COLOR_POINTS)>>
        ELSE <<>>)

\* np.greater(classes, len(classes) * [[0, 0, 0]]).astype(int)
MulticlassCodesMutant(classes) ==
    [r \in 1..Len(classes) |-> [i \in 1..3 |-> IF classes[r][i] >= 0 THEN 1 ELSE 0]]

MulticlassCodes(classes) ==
    [r \in 1..Len(classes) |-> [i \in 1..3 |-> IF classes[r][i] > 0 THEN 1 ELSE 0]]

\* np.hstack((classes, multiclass_codes))
HStack(a, b) == [r \in 1..Len(a) |-> a[r] \o b[r]]

FinalClasses(multilabel, db, dl, de) ==
    LET classes == Classes(db, dl, de)
    IN  IF multilabel THEN HStack(classes, MulticlassCodes(classes)) ELSE classes

----------------------------------------------------------------------------
(* Line height statistics (_compute_statistics_line_height, _is_outlier) *)

\* [tl for tr in page.text_regions for tl in tr.text_lines]
TextLines(page) == Flatten([r \in 1..Len(page.text_regions) |-> page.text_regions[r].text_lines])

\* max - min of the y coordinates of each line that has coords (l.279-280)
LineHeights(page) ==
    LET with_coords == SelectSeq(TextLines(page), LAMBDA tl : tl.coords # <<>>)
    IN  [k \in 1..Len(with_coords) |->
            LET ys == {with_coords[k].coords[i].y : i \in 1..Len(with_coords[k].coords)}
            IN  SetMax(ys) - SetMin(ys)]

\* 0.6745 and the default thresh 3.5, over 10000
ZFactor == 6745

Thresh == 35000

\* _is_outlier on a non-empty 1-D sample: the boolean mask.
\* diff2 is 2*diff and mad4 is 4*med_abs_deviation.  A zero deviation is
\* replaced by 1e-10, under which every non-zero diff (>= 1/2) scores above thresh.
is_outlier(points) ==
    LET median2 == Median2(points)
        diff2 == [i \in 1..Len(points) |-> Abs(2 * points[i] - median2)]
        mad4 == Median2(diff2)
    IN  [i \in 1..Len(points) |->
            IF mad4 = 0 THEN diff2[i] > 0
            ELSE ZFactor * 2 * diff2[i] > Thresh * mad4]

\* line_heights_filtered (l.283-287)
FilterHeightsAlways(line_heights) ==
    IF Len(line_heights) > 0
    THEN LET outliers == is_outlier(line_heights)
             keep == {i \in 1..Len(line_heights) : ~outliers[i]}
             idx == [i \in 1..Cardinality(keep) |->
                        CHOOSE j \in keep : Cardinality({m \in keep : m < j}) = i - 1]
         IN  [i \in 1..Len(idx) |-> line_heights[idx[i]]]
    ELSE line_heights

FilterHeights(line_heights) ==
    IF Len(line_heights) > 3
    THEN LET outliers == is_outlier(line_heights)
             keep == {i \in 1..Len(line_heights) : ~outliers[i]}
             idx == [i \in 1..Cardinality(keep) |->
                        CHOOSE j \in keep : Cardinality({m \in keep : m < j}) = i - 1]
         IN  [i \in 1..Len(idx) |-> line_heights[idx[i]]]
    ELSE line_heights

\* (mean, standard_deviation, median) of the filtered heights:
\* mean = sum / count, median = median2 / 2, standard_deviation^2 = var_nn / count^2;
\* count = 0 is numpy's nan result for an empty sample.
compute_statistics_line_height(page) ==
    LET f == FilterHeights(LineHeights(page))
        n == Len(f)
    IN  [used |-> f,
         count |-> n,
         sum |-> SeqSum(f),
         median2 |-> IF n = 0 THEN 0 ELSE Median2(f),
         var_nn |-> n * SeqSum([i \in 1..n |-> f[i] * f[i]]) - SeqSum(f) * SeqSum(f)]

----------------------------------------------------------------------------
(* Raster primitives: the pixels a cv2 drawing call sets to 255 *)

InCanvas(c, shape) == c[1] >= 0 /\ c[1] < shape[2] /\ c[2] >= 0 /\ c[2] < shape[1]

\* the canvas pixels in the bounding box of pts grown by m
Box(pts, m, shape) ==
    IF pts = {} THEN {}
    ELSE LET xs == {p.x : p \in pts}
             ys == {p.y : p \in pts}
         IN  (Max2(0, SetMin(xs) - m)..Min2(shape[2] - 1, SetMax(xs) + m))
               \X (Max2(0, SetMin(ys) - m)..Min2(shape[1] - 1, SetMax(ys) + m))

\* pixel c lies within half the stroke width t (at least 1) of the segment a-b
OnStroke(c, a, b, t) ==
    LET w == Max2(t, 1)
        dx == b.x - a.x
        dy == b.y - a.y
        len2 == dx * dx + dy * dy
        ca2 == (c[1] - a.x) * (c[1] - a.x) + (c[2] - a.y) * (c[2] - a.y)
        cb2 == (c[1] - b.x) * (c[1] - b.x) + (c[2] - b.y) * (c[2] - b.y)
        dot == (c[1] - a.x) * dx + (c[2] - a.y) * dy
    IN  IF len2 = 0 \/ dot <= 0 THEN 4 * ca2 <= w * w
        ELSE IF dot >= len2 THEN 4 * cb2 <= w * w
        ELSE 4 * (ca2 * len2 - dot * dot) <= w * w * len2

\* cv2.polylines(zeros, polys, isClosed=False, color=255, thickness=t):
\* every segment between consecutive points is stroked; a polyline of fewer
\* than two points has no segment.
Polylines(polys, t, shape) ==
    LET pts == UNION {{polys[k][i] : i \in 1..Len(polys[k])} : k \in 1..Len(polys)}
    IN  {c \in Box(pts, Max2(t, 1), shape) :
            \E k \in 1..Len(polys) : \E i \in 1..(Len(polys[k]) - 1) :
                OnStroke(c, polys[k][i], polys[k][i + 1], t)}

\* edge a-b crosses the horizontal ray from pixel c to the right
Crosses(c, a, b) ==
    /\ (a.y > c[2]) # (b.y > c[2])
    /\ IF b.y > a.y
       THEN (c[1] - a.x) * (b.y - a.y) < (b.x - a.x) * (c[2] - a.y)
       ELSE (c[1] - a.x) * (b.y - a.y) > (b.x - a.x) * (c[2] - a.y)

\* cv2.fillPoly(zeros, [poly], color=255): the closed boundary and the
\* even-odd interior of a non-empty polygon
FillPoly(poly, shape) ==
    LET n == Len(poly)
        nxt(i) == IF i = n THEN 1 ELSE i + 1
    IN  {c \in Box({poly[i] : i \in 1..n}, 1, shape) :
            \/ \E i \in 1..n : OnStroke(c, poly[i], poly[nxt(i)], 1)
            \/ Cardinality({i \in 1..n : Crosses(c, poly[i], poly[nxt(i)])}) % 2 = 1}

\* cv2.circle(zeros, center, radius, color=255, thickness=-1)
Circle(center, radius, shape) ==
    {c \in Box({center}, radius, shape) :
        (c[1] - center.x) * (c[1] - center.x) + (c[2] - center.y) * (c[2] - center.y)
            <= radius * radius}

----------------------------------------------------------------------------
(* save_and_resize *)

\* An optional value (None or a value) is the empty or the one-element sequence.
None == <<>>

Some(v) == <<v>>

\* The shape cv2.resize is asked for: (int(w*ratio), int(h*ratio)) with
\* ratio = sqrt(size/(h*w)).  w*ratio = sqrt(w*size/h), and the integer part
\* of the square root of a real x >= 0 is ISqrt of the integer part of x.
ResizedShapeRounded(shape, size) ==
    LET h == shape[1]
        w == shape[2]
        RoundSqrt(num, den) ==
            CHOOSE k \in 0..(num + 1) :
                /\ k = 0 \/ 4 * num >= den * (2 * k - 1) * (2 * k - 1)
                /\ 4 * num < den * (2 * k + 1) * (2 * k + 1)
    IN  <<RoundSqrt(h * size, w), RoundSqrt(w * size, h)>>

ResizedShape(shape, size) ==
    LET h == shape[1]
        w == shape[2]
    IN  <<ISqrt((h * size) \div w), ISqrt((w * size) \div h)>>

\* save_and_resize(img, filename, size): what reaches imsave.  cv2.resize
\* raises cv2.error when a requested dimension is 0, and nothing is saved.
save_and_resize(shape, size) ==
    IF size # None
    THEN LET resized == ResizedShape(shape, size[1])
         IN  [raised |-> resized[1] = 0 \/ resized[2] = 0, shape |-> resized]
    ELSE [raised |-> FALSE, shape |-> shape]

----------------------------------------------------------------------------
(* annotate_one_page *)

\* gt.shape[0] * 0.002 as thousandths per row
MinThicknessPerMille == 2

\* int(max(gt.shape[0]*0.002, baseline_thickness*mean_line_height)), with
\* baseline_thickness = bt.num/bt.den and mean_line_height = st.sum/st.count.
\* For an empty sample the mean is nan and Python's max keeps its first argument.
AbsoluteBaselineThicknessNoClamp(h, bt, st) ==
    IF st.count = 0 THEN (MinThicknessPerMille * h) \div 1000
    ELSE (bt.num * st.sum) \div (bt.den * st.count)

AbsoluteBaselineThickness(h, bt, st) ==
    IF st.count = 0 THEN (MinThicknessPerMille * h) \div 1000
    ELSE Max2((MinThicknessPerMille * h) \div 1000,
              (bt.num * st.sum) \div (bt.den * st.count))

\* int(diameter_endpoint / 2 * (gt_points.shape[0] / TARGET_HEIGHT))
EndpointRadius(h, diameter_endpoint) == (diameter_endpoint * h) \div (2 * TARGET_HEIGHT)

\* The cv2.circle calls of the endpoint loop (l.135-144), in call order.
\* tl.baseline[0] raises IndexError on an empty baseline, which the loop
\* catches; any other baseline has a first and a last point.
EndpointCirclesFirstOnly(text_lines, radius) ==
    Flatten([k \in 1..Len(text_lines) |->
        IF Len(text_lines[k].baseline) = 0 THEN <<>>
        ELSE <<[line |-> k, center |-> text_lines[k].baseline[1], radius |-> radius],
               [line |-> k, center |-> text_lines[k].baseline[1], radius |-> radius]>>])

EndpointCircles(text_lines, radius) ==
    Flatten([k \in 1..Len(text_lines) |->
        IF Len(text_lines[k].baseline) = 0 THEN <<>>
        ELSE <<[line |-> k, center |-> text_lines[k].baseline[1], radius |-> radius],
               [line |-> k,
                center |-> text_lines[k].baseline[Len(text_lines[k].baseline)],
                radius |-> radius]>>])

EmptyPage == [text_regions |-> <<>>]

EmptyGt(shape) == [shape |-> shape, ch |-> <<{}, {}, {}>>]

NoStats == [used |-> <<>>, count |-> 0, sum |-> 0, median2 |-> 0, var_nn |-> 0]

OutputDir == <<"/", "o", "u", "t">>

OutPath(folder, name, ext) == PathJoin(PathJoin(OutputDir, folder), name \o ext)

\* the mask before any drawing is guarded by `if text_lines:` (l.105-107)
DrawsMutant(text_lines, flag) == flag

Draws(text_lines, flag) == text_lines # <<>> /\ flag

\* What a call of annotate_one_page leaves behind: its locals, the exception
\* it lets escape (raised, "" for none) and the files it wrote (l.147-157).
AnnotateResult(raised, image_filename, page_filename, page, text_lines, st, thickness, circles, endpoints_reached, draw_error, gt, saved_shape) ==
    [raised |-> raised,
     draw_error |-> draw_error,
     called |-> TRUE,
     image_filename |-> image_filename,
     page_filename |-> page_filename,
     text_lines |-> text_lines,
     mean_line_height |-> st,
     absolute_baseline_thickness |-> thickness,
     circles |-> circles,
     endpoints_reached |-> endpoints_reached,
     gt |-> gt,
     output_image_path |->
         OutPath(<<"i", "m", "a", "g", "e", "s">>, get_image_label_basename(image_filename), ExtJpg),
     output_label_path |->
         OutPath(<<"l", "a", "b", "e", "l", "s">>, get_image_label_basename(image_filename), ExtPng),
     writes |->
         IF raised # "" THEN <<>>
         ELSE [f \in {OutPath(<<"i", "m", "a", "g", "e", "s">>,
                              get_image_label_basename(image_filename), ExtJpg),
                      OutPath(<<"l", "a", "b", "e", "l", "s">>,
                              get_image_label_basename(image_filename), ExtPng),
                      OutPath(<<"g", "t">>, get_image_label_basename(image_filename), ExtXml)} |->
                 [kind |-> Basename(Dirname(f)),
                  shape |-> saved_shape,
                  gt |-> IF Basename(Dirname(f)) = <<"l", "a", "b", "e", "l", "s">>
                         THEN gt ELSE EmptyGt(<<0, 0>>),
                  page |-> IF Basename(Dirname(f)) = <<"g", "t">> THEN page ELSE EmptyPage,
                  rows |-> <<>>]]]

\* l.147-153: the canvas is complete; image and mask are resized and saved
AnnotateSave(image_filename, a, shape, page_filename, page, text_lines, st, thickness, circles, endpoints_reached, draw_error, gt, rs) ==
    AnnotateResult(IF draw_error \/ rs.raised THEN "cv2.error" ELSE "",
                   image_filename, page_filename, page, text_lines, st, thickness,
                   circles, endpoints_reached, draw_error, gt, rs.shape)

\* l.107-145: the three drawing steps.  A cv2 build that rejects an empty
\* point array raises in polylines (empty baseline) or fillPoly (empty coords),
\* and the later steps are not reached.
AnnotateDraw(image_filename, a, shape, cvok, page_filename, page, text_lines, st, thickness, circles, b_err, l_err) ==
    AnnotateSave(
        image_filename, a, shape, page_filename, page, text_lines, st,
        IF Draws(text_lines, a.draw_baselines) THEN Some(thickness) ELSE None,
        IF Draws(text_lines, a.draw_endpoints) /\ ~b_err /\ ~l_err THEN circles ELSE <<>>,
        Draws(text_lines, a.draw_endpoints) /\ ~b_err /\ ~l_err,
        b_err \/ l_err,
        [shape |-> shape,
         ch |-> [c \in 1..3 |->
                   IF b_err \/ l_err THEN {}
                   ELSE IF Draws(text_lines, a.draw_endpoints)
                           /\ c = ArgMax(DRAWING_COLOR_POINTS) + 1
                   THEN UNION {Circle(circles[i].center, circles[i].radius, shape) :
                                  i \in 1..Len(circles)}
                   ELSE IF Draws(text_lines, a.draw_lines)
                           /\ c = ArgMax(DRAWING_COLOR_LINES) + 1
                   THEN UNION {FillPoly(text_lines[k].coords, shape) :
                                  k \in 1..Len(text_lines)}
                   ELSE IF Draws(text_lines, a.draw_baselines)
                           /\ c = ArgMax(DRAWING_COLOR_BASELINES) + 1
                   THEN Polylines([k \in 1..Len(text_lines) |-> text_lines[k].baseline],
                                  thickness, shape)
                   ELSE {}]],
        save_and_resize(shape, a.img_size))

\* l.102-112: the text lines, and the stroke thickness when baselines are drawn
AnnotateLines(image_filename, a, shape, cvok, page_filename, page, text_lines, st) ==
    AnnotateDraw(
        image_filename, a, shape, cvok, page_filename, page, text_lines, st,
        AbsoluteBaselineThickness(shape[1], a.line_thickness, st),
        EndpointCircles(text_lines, EndpointRadius(shape[1], a.circle_thickness)),
        Draws(text_lines, a.draw_baselines) /\ ~cvok
            /\ \E k \in 1..Len(text_lines) : text_lines[k].baseline = <<>>,
        Draws(text_lines, a.draw_lines) /\ ~cvok
            /\ \E k \in 1..Len(text_lines) : text_lines[k].coords = <<>>)

\* l.99-101: the companion file is looked up and parsed; get_page_filename
\* raises FileNotFoundError when it does not exist
AnnotateParsed(image_filename, a, pf, shape, cvok, page_filename) ==
    IF page_filename \notin DOMAIN pf
    THEN AnnotateResult("FileNotFoundError", image_filename, page_filename, EmptyPage,
                        <<>>, NoStats, None, <<>>, FALSE, FALSE, EmptyGt(shape), shape)
    ELSE AnnotateLines(image_filename, a, shape, cvok, page_filename, pf[page_filename],
                       TextLines(pf[page_filename]),
                       IF Draws(TextLines(pf[page_filename]), a.draw_baselines)
                       THEN compute_statistics_line_height(pf[page_filename])
                       ELSE NoStats)

\* annotate_one_page(image_filename, output_dir, a.img_size, ...) with the
\* companion files pf, images of the given shape and the cv2 build cvok
annotate_one_page(image_filename, a, pf, shape, cvok) ==
    AnnotateParsed(image_filename, a, pf, shape, cvok, get_page_filename(image_filename))

NoAnnot ==
    [raised |-> "", draw_error |-> FALSE, called |-> FALSE, image_filename |-> <<>>, page_filename |-> <<>>,
     text_lines |-> <<>>, mean_line_height |-> NoStats,
     absolute_baseline_thickness |-> None, circles |-> <<>>, endpoints_reached |-> FALSE,
     gt |-> EmptyGt(<<0, 0>>), output_image_path |-> <<>>, output_label_path |-> <<>>,
     writes |-> <<>>]

----------------------------------------------------------------------------
(* cbad_set_generator *)

InputDir == <<"i", "n">>

ImgPath(name) == PathJoin(PathJoin(InputDir, <<"A", "_", "x">>), name)

\* the companion file a '<stem>.<ext>' image is shipped with: page/<stem>.xml
CompanionPath(image_filename) ==
    PathJoin(PathJoin(Dirname(image_filename), <<"p", "a", "g", "e">>),
             SplitExtStem(Basename(image_filename)) \o ExtXml)

\* glob('{}/**/*.jp*g'.format(input_dir)), in any order
Glob(files) == Orderings({f \in files : MatchesJpG(Basename(f))})

ClassesPath == PathJoin(OutputDir, <<"c", "l", "a", "s", "s", "e", "s", ".", "t", "x", "t">>)

ManifestPath == PathJoin(OutputDir, <<"s", "e", "t", "_", "d", "a", "t", "a", ".", "c", "s", "v">>)

TextFile(rows) ==
    [kind |-> <<>>, shape |-> <<0, 0>>, gt |-> EmptyGt(<<0, 0>>), page |-> EmptyPage,
     rows |-> rows]

\* l.185: the images are listed
GlobImages ==
    /\ status = "init"
    /\ image_filenames_list' \in Glob(input_images)
    /\ status' = "running"
    /\ UNCHANGED <<input_images, page_files, img_shape, args, cv2_empty_ok, pos,
                   tuples_images_labels, out_files, annot>>
    /\ UNCHANGED <<statVars, splitVars, resizeVars>>

NextAnnotation ==
    annotate_one_page(image_filenames_list[pos + 1], args, page_files, img_shape,
                      cv2_empty_ok)

\* l.193-201: one iteration of the loop that returns
AnnotateReturns ==
    /\ status = "running"
    /\ pos < Len(image_filenames_list)
    /\ \E r \in {NextAnnotation} :
          /\ r.raised = ""
          /\ annot' = r
          /\ out_files' = r.writes @@ out_files
          /\ tuples_images_labels' =
                Append(tuples_images_labels, <<r.output_image_path, r.output_label_path>>)
    /\ pos' = pos + 1
    /\ UNCHANGED <<input_images, page_files, img_shape, args, cv2_empty_ok,
                   image_filenames_list, status>>
    /\ UNCHANGED <<statVars, splitVars, resizeVars>>

\* l.194: annotate_one_page raises; nothing catches it and cbad_set_generator ends
AnnotateRaises ==
    /\ status = "running"
    /\ pos < Len(image_filenames_list)
    /\ \E r \in {NextAnnotation} :
          /\ r.raised # ""
          /\ annot' = r
    /\ status' = "raised"
    /\ UNCHANGED <<input_images, page_files, img_shape, args, cv2_empty_ok,
                   image_filenames_list, pos, tuples_images_labels, out_files>>
    /\ UNCHANGED <<statVars, splitVars, resizeVars>>

\* l.203-232: after the loop, classes.txt and set_data.csv are written
WriteClassesAndManifest ==
    /\ status = "running"
    /\ pos = Len(image_filenames_list)
    /\ out_files' =
          (ClassesPath :> TextFile(
                                   FinalClasses(args.multilabel, args.draw_baselines,
                                                args.draw_lines, args.draw_endpoints)))
          @@ (ManifestPath :> TextFile(tuples_images_labels))
          @@ out_files
    /\ status' = "done"
    /\ UNCHANGED <<input_images, page_files, img_shape, args, cv2_empty_ok,
                   image_filenames_list, pos, tuples_images_labels, annot>>
    /\ UNCHANGED <<statVars, splitVars, resizeVars>>

BuildStart ==
    /\ image_filenames_list = <<>>
    /\ pos = 0
    /\ tuples_images_labels = <<>>
    /\ out_files = <<>>
    /\ status = "init"
    /\ annot = NoAnnot

BuildIdle ==
    /\ input_images = {}
    /\ page_files = <<>>
    /\ img_shape = <<0, 0>>
    /\ args = [img_size |-> None, multilabel |-> FALSE, draw_baselines |-> TRUE,
               draw_lines |-> FALSE, line_thickness |-> [num |-> 1, den |-> 5],
               draw_endpoints |-> FALSE, circle_thickness |-> 20]
    /\ cv2_empty_ok = TRUE
    /\ image_filenames_list = <<>>
    /\ pos = 0
    /\ tuples_images_labels = <<>>
    /\ out_files = <<>>
    /\ status = "idle"
    /\ annot = NoAnnot

StatIdle == page_class = EmptyPage /\ stats = None

SplitIdle == df_data = <<>> /\ df_eval = <<>> /\ df_train = <<>> /\ split_done = FALSE

ResizeIdle == rs_img = <<0, 0>> /\ rs_size = None /\ rs_out = <<>>

Pt(x, y) == [x |-> x, y |-> y]

Line(baseline, coords) == [baseline |-> baseline, coords |-> coords]

Region(text_lines) == [text_lines |-> text_lines]

Page(text_regions) == [text_regions |-> text_regions]

\* the functions from subsets of D to V
PartialFunctions(D, V) == UNION {[X -> V] : X \in SUBSET D}

\* Build inputs: any of four files of one collection (three match the glob
\* pattern), each companion file present or not, every combination of the flags.
BuildCandidates ==
    {ImgPath(<<"a">> \o ExtJpg), ImgPath(<<"b">> \o ExtJpeg),
     ImgPath(<<"a", ".", "b">> \o ExtJpg), ImgPath(<<"c">> \o ExtPng)}

BuildPage ==
    Page(<<Region(<<Line(<<Pt(0, 0), Pt(1, 1)>>, <<Pt(0, 0), Pt(1, 0), Pt(1, 1)>>)>>)>>)

Init ==
    /\ input_images \in SUBSET BuildCandidates
    /\ page_files \in PartialFunctions(
            {get_page_filename(f) : f \in input_images}
                \cup {CompanionPath(f) : f \in input_images},
            {BuildPage})
    /\ img_shape = <<2, 2>>
    /\ args \in [img_size : {None, Some(4)}, multilabel : BOOLEAN,
                 draw_baselines : BOOLEAN, draw_lines : BOOLEAN,
                 line_thickness : {[num |-> 1, den |-> 5]},
                 draw_endpoints : BOOLEAN, circle_thickness : {20}]
    /\ cv2_empty_ok = TRUE
    /\ BuildStart
    /\ StatIdle /\ SplitIdle /\ ResizeIdle

Next == GlobImages \/ AnnotateReturns \/ AnnotateRaises \/ WriteClassesAndManifest

Spec == Init /\ [][Next]_vars

----------------------------------------------------------------------------
(* One page in detail: the same build over a single image whose companion *)
(* file, when present, holds any page of up to MaxLines lines.            *)

MaxLines == 2

RichLines ==
    {Line(<<>>, <<>>),
     Line(<<Pt(1, 2)>>, <<Pt(0, 0), Pt(1, 2)>>),
     Line(<<Pt(0, 0), Pt(2, 10)>>, <<Pt(0, 0), Pt(2, 10), Pt(1, 2)>>),
     Line(<<Pt(2, 10), Pt(1, 2), Pt(0, 0)>>, <<Pt(1, 2), Pt(2, 10)>>)}

\* the pages that hold the lines ls in order: no region (for no line), one
\* region, or two regions split anywhere (an empty region included)
PagesOf(ls) ==
    (IF ls = <<>> THEN {Page(<<>>)} ELSE {})
    \cup {Page(<<Region(ls)>>)}
    \cup {Page(<<Region(SubSeq(ls, 1, k)), Region(SubSeq(ls, k + 1, Len(ls)))>>) :
             k \in 0..Len(ls)}

RichPages == UNION {PagesOf(ls) : ls \in SeqsUpTo(RichLines, MaxLines)}

TheImage == ImgPath(<<"a">> \o ExtJpg)

InitPage ==
    /\ input_images = {TheImage}
    /\ page_files \in {<<>>} \cup {(get_page_filename(TheImage) :> p) : p \in RichPages}
    /\ img_shape \in {<<3, 3>>, <<600, 3>>}
    /\ args \in [img_size : {None, Some(200), Some(1)}, multilabel : {FALSE},
                 draw_baselines : BOOLEAN, draw_lines : BOOLEAN,
                 line_thickness : {[num |-> 1, den |-> 5]},
                 draw_endpoints : BOOLEAN, circle_thickness : {20}]
    /\ cv2_empty_ok \in BOOLEAN
    /\ BuildStart
    /\ StatIdle /\ SplitIdle /\ ResizeIdle

SpecPage == InitPage /\ [][Next]_vars

----------------------------------------------------------------------------
(* _compute_statistics_line_height on its own *)

MaxStatLines == 5

MaxStatHeight == 2

FarHeight == 40

StatLines ==
    {Line(<<>>, <<>>)}
    \cup {Line(<<>>, <<Pt(0, 1), Pt(0, 1 + h)>>) : h \in (0..MaxStatHeight) \cup {FarHeight}}

InitStats ==
    /\ page_class \in {Page(<<Region(ls)>>) : ls \in SeqsUpTo(StatLines, MaxStatLines)}
    /\ stats = None
    /\ BuildIdle /\ SplitIdle /\ ResizeIdle

ComputeStatistics ==
    /\ stats = None
    /\ stats' = Some(compute_statistics_line_height(page_class))
    /\ UNCHANGED <<page_class, buildVars, splitVars, resizeVars>>

NextStats == ComputeStatistics

SpecStats == InitStats /\ [][NextStats]_vars

----------------------------------------------------------------------------
(* split_set_for_eval *)

MaxRows == 10

\* round(num / den) as Python rounds: to the nearest integer, ties to even
RoundHalfEven(num, den) ==
    LET q == num \div den
        r2 == 2 * (num % den)
    IN  IF r2 < den THEN q
        ELSE IF r2 > den THEN q + 1
        ELSE IF q % 2 = 0 THEN q ELSE q + 1

\* the number of rows DataFrame.sample(frac=0.15) draws from n_rows rows
SampleSize(n_rows) == RoundHalfEven(15 * n_rows, 100)

\* the draws of n index labels without replacement, in drawn order
Samples(index, n) == {s \in [1..n -> index] : \A i, j \in 1..n : s[i] = s[j] => i = j}

\* the members of a set of integers in ascending order
SortedSet(S) ==
    [i \in 1..Cardinality(S) |-> CHOOSE v \in S : Cardinality({u \in S : u < v}) = i - 1]

\* df_data.index.difference(df_eval.index): the sorted labels of index not in other
IndexDifferenceNone(index, other) == SortedSet(index)

IndexDifference(index, other) == SortedSet(index \ other)

InitSplit ==
    /\ \E n \in 0..MaxRows : \E same \in BOOLEAN :
          df_data = [i \in 1..n |-> IF same THEN 0 ELSE i]
    /\ df_eval = <<>>
    /\ df_train = <<>>
    /\ split_done = FALSE
    /\ BuildIdle /\ StatIdle /\ ResizeIdle

\* l.243-253; the index labels of the rows are 0 .. len - 1
SplitSetForEval ==
    /\ ~split_done
    /\ \E s \in Samples(0..(Len(df_data) - 1), SampleSize(Len(df_data))) :
          /\ df_eval' = [i \in 1..Len(s) |-> [index |-> s[i], row |-> df_data[s[i] + 1]]]
          /\ \E indexes \in {IndexDifference(0..(Len(df_data) - 1), Range(s))} :
                df_train' = [i \in 1..Len(indexes) |->
                                [index |-> indexes[i], row |-> df_data[indexes[i] + 1]]]
    /\ split_done' = TRUE
    /\ UNCHANGED <<df_data, buildVars, statVars, resizeVars>>

NextSplit == SplitSetForEval

SpecSplit == InitSplit /\ [][NextSplit]_vars

----------------------------------------------------------------------------
(* save_and_resize on its own *)

MaxDim == 4

MaxSize == 12

InitResize ==
    /\ rs_img \in (1..MaxDim) \X (1..MaxDim)
    /\ rs_size \in {None} \cup {Some(n) : n \in 1..MaxSize}
    /\ rs_out = None
    /\ BuildIdle /\ StatIdle /\ SplitIdle

SaveAndResize ==
    /\ rs_out = None
    /\ rs_out' = Some(save_and_resize(rs_img, rs_size))
    /\ UNCHANGED <<rs_img, rs_size, buildVars, statVars, splitVars>>

NextResize == SaveAndResize

SpecResize == InitResize /\ [][NextResize]_vars

----------------------------------------------------------------------------
(* Properties *)

ClassTable == out_files[ClassesPath].rows

\* the seven candidate rows after the background, each with the channels it needs
CandidateRows ==
    <<[need |-> {"baselines"}, color |-> <<255, 0, 0>>],
      [need |-> {"lines"}, color |-> <<0, 255, 0>>],
      [need |-> {"endpoints"}, color |-> <<0, 0, 255>>],
      [need |-> {"baselines", "lines"}, color |-> <<255, 255, 0>>],
      [need |-> {"baselines", "endpoints"}, color |-> <<255, 0, 255>>],
      [need |-> {"lines", "endpoints"}, color |-> <<0, 255, 255>>],
      [need |-> {"baselines", "lines", "endpoints"}, color |-> <<255, 255, 255>>]>>

EnabledChannels ==
    (IF args.draw_baselines THEN {"baselines"} ELSE {})
    \cup (IF args.draw_lines THEN {"lines"} ELSE {})
    \cup (IF args.draw_endpoints THEN {"endpoints"} ELSE {})

ExpectedColors ==
    <<<<0, 0, 0>>>>
    \o [i \in 1..Len(SelectSeq(CandidateRows, LAMBDA r : r.need \subseteq EnabledChannels)) |->
          SelectSeq(CandidateRows, LAMBDA r : r.need \subseteq EnabledChannels)[i].color]

\* C1: for every combination of the three drawing flags the colours of the
\* class table written by a finished build are the background, then the
\* enabled single channels in the order baseline, lines, endpoints, then the
\* pairwise sums baseline+lines, baseline+endpoints, lines+endpoints with both
\* addends enabled, then the triple sum; for baselines and lines without
\* endpoints and without multilabel the table is exactly
\* (0,0,0), (255,0,0), (0,255,0), (255,255,0).
C1_ClassTableOrder ==
    status = "done" =>
        /\ [r \in 1..Len(ClassTable) |-> SubSeq(ClassTable[r], 1, 3)] = ExpectedColors
        /\ (args.draw_baselines /\ args.draw_lines /\ ~args.draw_endpoints /\ ~args.multilabel)
              => ClassTable = <<<<0, 0, 0>>, <<255, 0, 0>>, <<0, 255, 0>>, <<255, 255, 0>>>>

C1_Witness ==
    /\ status = "done"
    /\ args.draw_baselines /\ args.draw_lines /\ ~args.draw_endpoints /\ ~args.multilabel
    /\ ClassTable = <<<<0, 0, 0>>, <<255, 0, 0>>, <<0, 255, 0>>, <<255, 255, 0>>>>

\* C2: with multilabel set, the written class table has the rows of the plain
\* table in the same order, each followed by three 0/1 entries, the i-th being
\* 1 exactly when the i-th colour component is greater than 0.
C2_MultilabelBits ==
    (status = "done" /\ args.multilabel) =>
        /\ Len(ClassTable) = Len(ExpectedColors)
        /\ \A r \in 1..Len(ClassTable) :
              /\ Len(ClassTable[r]) = 6
              /\ SubSeq(ClassTable[r], 1, 3) = ExpectedColors[r]
              /\ \A i \in 1..3 :
                    /\ ClassTable[r][3 + i] \in {0, 1}
                    /\ ClassTable[r][3 + i] = 1 <=> ClassTable[r][i] > 0

C2_Witness ==
    /\ status = "done" /\ args.multilabel
    /\ args.draw_baselines /\ args.draw_lines /\ args.draw_endpoints
    /\ Len(ClassTable) = 8
    /\ ClassTable[1] = <<0, 0, 0, 0, 0, 0>>
    /\ ClassTable[4] = <<0, 0, 255, 0, 0, 1>>
    /\ ClassTable[8] = <<255, 255, 255, 1, 1, 1>>

\* C3: split_set_for_eval partitions the manifest by row index: no index is in
\* both sets, every index is in exactly one of them, the sizes add up to the
\* number of rows, the train set is the complement of the sampled eval set,
\* and every written row is the manifest row of its index.
C3_SplitPartitions ==
    split_done =>
        LET all == 0..(Len(df_data) - 1)
            ev == {df_eval[i].index : i \in 1..Len(df_eval)}
            tr == {df_train[i].index : i \in 1..Len(df_train)}
        IN  /\ ev \cap tr = {}
            /\ ev \cup tr = all
            /\ tr = all \ ev
            /\ Len(df_eval) + Len(df_train) = Len(df_data)
            /\ \A i \in 1..Len(df_eval) : df_eval[i].row = df_data[df_eval[i].index + 1]
            /\ \A i \in 1..Len(df_train) : df_train[i].row = df_data[df_train[i].index + 1]

C3_Witness ==
    /\ split_done
    /\ Len(df_data) = 10
    /\ Len(df_eval) = 2
    /\ Len(df_train) = 8
    /\ df_data[1] = df_data[2]

\* the images whose companion file exists where get_page_filename looks for it
WithCompanion ==
    {i \in 1..Len(image_filenames_list) :
        get_page_filename(image_filenames_list[i]) \in DOMAIN page_files}

\* C4: when the build over several images has ended, the failure of an image
\* whose companion file is missing has not kept the other images from being
\* processed: every image with a companion file has its manifest row, and the
\* class table and the manifest are written.
C4_FailureIsolated ==
    (status \in {"done", "raised"} /\ Len(image_filenames_list) >= 2) =>
        /\ Len(tuples_images_labels) = Cardinality(WithCompanion)
        /\ ClassesPath \in DOMAIN out_files
        /\ ManifestPath \in DOMAIN out_files

\* C5: for every image the build discovers, the companion path computed by
\* get_page_filename is the sibling page folder joined with the image's base
\* name with its extension replaced by .xml, and that stem is the one
\* get_image_label_basename puts in the output name.
C5_CompanionPath ==
    annot.called =>
        LET stem == SplitExtStem(Basename(annot.image_filename))
        IN  /\ annot.page_filename =
                  PathJoin(PathJoin(Dirname(annot.image_filename), <<"p", "a", "g", "e">>),
                           stem \o ExtXml)
            /\ Basename(annot.output_label_path) = <<"A", "_">> \o stem \o ExtPng

AllZero(gt) == \A c \in 1..3 : gt.ch[c] = {}

\* C6: for a document with no region or no line, annotate_one_page draws
\* nothing and no drawing step fails, whatever the three drawing flags: the
\* mask is zero in every channel and has the shape of the source image, and
\* that mask is what the labels file is made of when the call returns.
C6_EmptyDocumentZeroMask ==
    (annot.called /\ annot.raised # "FileNotFoundError" /\ annot.text_lines = <<>>) =>
        /\ ~annot.draw_error
        /\ annot.gt.shape = img_shape
        /\ AllZero(annot.gt)
        /\ annot.circles = <<>>
        /\ annot.absolute_baseline_thickness = None
        /\ annot.raised = "" =>
              /\ annot.output_label_path \in DOMAIN out_files
              /\ AllZero(out_files[annot.output_label_path].gt)
              /\ out_files[annot.output_label_path].gt.shape = img_shape

C6_Witness ==
    /\ annot.called /\ annot.raised = ""
    /\ page_files[annot.page_filename] = Page(<<Region(<<>>), Region(<<>>)>>)
    /\ args.draw_baselines /\ args.draw_lines /\ args.draw_endpoints
    /\ AllZero(out_files[annot.output_label_path].gt)

CirclesOf(k) == SelectSeq(annot.circles, LAMBDA c : c.line = k)

\* C7 as stated: with draw_endpoints set, a line whose baseline has fewer than
\* two points gets no endpoint marker and raises no error, and every other
\* line gets its markers at its first and last baseline points.
C7_NoMarkerUnderTwoPoints ==
    (annot.called /\ annot.endpoints_reached) =>
        \A k \in 1..Len(annot.text_lines) :
            LET b == annot.text_lines[k].baseline
            IN  IF Len(b) < 2 THEN CirclesOf(k) = <<>>
                ELSE /\ Len(CirclesOf(k)) = 2
                     /\ CirclesOf(k)[1].center = b[1]
                     /\ CirclesOf(k)[2].center = b[Len(b)]

\* C7 amended: with draw_endpoints set and the endpoint step reached, a line
\* with an empty baseline gets no marker and the step raises nothing; every
\* line with at least one baseline point, a one-point line included, gets two
\* markers, at its first and at its last point, and the pixels of those points
\* that lie on the canvas are set in the endpoint channel.  With only
\* draw_endpoints set, no drawing step fails.
C7_MarkersAtFirstAndLast ==
    /\ (annot.called /\ annot.endpoints_reached) =>
          \A k \in 1..Len(annot.text_lines) :
              LET b == annot.text_lines[k].baseline
              IN  IF Len(b) = 0 THEN CirclesOf(k) = <<>>
                  ELSE /\ Len(CirclesOf(k)) = 2
                       /\ CirclesOf(k)[1].center = b[1]
                       /\ CirclesOf(k)[2].center = b[Len(b)]
                       /\ \A p \in {b[1], b[Len(b)]} :
                             InCanvas(<<p.x, p.y>>, img_shape)
                                => <<p.x, p.y>> \in annot.gt.ch[3]
    /\ (annot.called /\ annot.raised # "FileNotFoundError" /\ annot.text_lines # <<>>
          /\ args.draw_endpoints /\ ~args.draw_baselines /\ ~args.draw_lines)
          => annot.endpoints_reached /\ ~annot.draw_error

C7_Witness ==
    /\ annot.called /\ annot.endpoints_reached /\ annot.raised = ""
    /\ Len(annot.text_lines) = 2
    /\ annot.text_lines[1].baseline = <<>>
    /\ Len(annot.text_lines[2].baseline) = 1
    /\ CirclesOf(1) = <<>>
    /\ Len(CirclesOf(2)) = 2
    /\ <<1, 2>> \in annot.gt.ch[3]

\* C8 as stated: with a pixel budget, the written width and height are
\* w*ratio and h*ratio rounded to a nearest integer, ratio = sqrt(size/(h*w));
\* without one the shape is unchanged.
C8_RoundedDimensions ==
    rs_out # None =>
        LET h == rs_img[1]
            w == rs_img[2]
            nh == rs_out[1].shape[1]
            nw == rs_out[1].shape[2]
        IN  IF rs_size = None THEN ~rs_out[1].raised /\ rs_out[1].shape = rs_img
            ELSE /\ (2 * nw - 1) * (2 * nw - 1) * h <= 4 * w * rs_size[1]
                 /\ 4 * w * rs_size[1] <= (2 * nw + 1) * (2 * nw + 1) * h
                 /\ (2 * nh - 1) * (2 * nh - 1) * w <= 4 * h * rs_size[1]
                 /\ 4 * h * rs_size[1] <= (2 * nh + 1) * (2 * nh + 1) * w

\* C8 amended: with a pixel budget, the requested width and height are the
\* integer parts of w*ratio and h*ratio; the image is written with them when
\* both are at least 1, and the resize fails with nothing written otherwise;
\* without a budget the input is written with its shape unchanged.
C8_TruncatedDimensions ==
    rs_out # None =>
        LET h == rs_img[1]
            w == rs_img[2]
            nh == rs_out[1].shape[1]
            nw == rs_out[1].shape[2]
        IN  IF rs_size = None THEN ~rs_out[1].raised /\ rs_out[1].shape = rs_img
            ELSE /\ nw * nw * h <= w * rs_size[1]
                 /\ w * rs_size[1] < (nw + 1) * (nw + 1) * h
                 /\ nh * nh * w <= h * rs_size[1]
                 /\ h * rs_size[1] < (nh + 1) * (nh + 1) * w
                 /\ rs_out[1].raised <=> (nw = 0 \/ nh = 0)

C8_Witness ==
    /\ rs_img = <<1, 1>>
    /\ rs_size = Some(3)
    /\ rs_out = Some([raised |-> FALSE, shape |-> <<1, 1>>])

\* the sample is retained by the modified z-score test of the claim:
\* 0.6745 * |v - median| / max(mad, 1e-10) <= 3.5, in halves and quarters
Retained(v, sample) ==
    LET median2 == Median2(sample)
        mad4 == Median2([i \in 1..Len(sample) |-> Abs(2 * sample[i] - median2)])
    IN  IF mad4 = 0 THEN 2 * v = median2
        ELSE 6745 * 2 * Abs(2 * v - median2) <= 35000 * mad4

\* sample[o] is an extreme outlier: farther from every other value than six
\* times the spread of the other values
ExtremeAt(sample, o) ==
    LET others == {sample[i] : i \in (1..Len(sample)) \ {o}}
    IN  \A v \in others :
           /\ sample[o] # v
           /\ Abs(sample[o] - v) > 6 * (SetMax(others) - SetMin(others))

\* C9: the statistics are computed over all line heights when there are three
\* or fewer, and otherwise over exactly the heights the modified z-score test
\* retains; for more than three heights with one extreme outlier the outlier
\* is rejected and the mean and the median lie within the other values' range.
C9_RobustSubset ==
    stats # None =>
        LET sample == LineHeights(page_class)
            st == stats[1]
        IN  /\ Len(sample) <= 3 => st.used = sample
            /\ Len(sample) > 3 => st.used = SelectSeq(sample, LAMBDA v : Retained(v, sample))
            /\ st.count = Len(st.used) /\ st.sum = SeqSum(st.used)
            /\ \A o \in 1..Len(sample) :
                  (Len(sample) > 3 /\ ExtremeAt(sample, o)) =>
                      LET others == {sample[i] : i \in (1..Len(sample)) \ {o}}
                      IN  /\ sample[o] \notin Range(st.used)
                          /\ st.count > 0
                          /\ SetMin(others) * st.count <= st.sum
                          /\ st.sum <= SetMax(others) * st.count
                          /\ 2 * SetMin(others) <= st.median2
                          /\ st.median2 <= 2 * SetMax(others)

C9_Witness ==
    /\ stats # None
    /\ LineHeights(page_class) = <<0, 1, FarHeight, 2>>
    /\ stats[1].used = <<0, 1, 2>>
    /\ stats[1].sum = 3 /\ stats[1].count = 3 /\ stats[1].median2 = 2

DrewBaselines == annot.called /\ annot.absolute_baseline_thickness # None

\* C10 as stated: the stroke thickness of the baselines equals
\* max(canvas_height * 0.002, baseline_thickness * mean_line_height) and is
\* never below 0.2% of the canvas height.
C10_ThicknessIsMax ==
    (DrewBaselines /\ annot.mean_line_height.count > 0) =>
        LET t == annot.absolute_baseline_thickness[1]
            st == annot.mean_line_height
            bt == args.line_thickness
        IN  /\ 1000 * bt.den * st.count * t
                  = Max2(2 * img_shape[1] * bt.den * st.count, 1000 * bt.num * st.sum)
            /\ 1000 * t >= 2 * img_shape[1]

\* C10 amended: the stroke thickness is the integer part of
\* max(canvas_height * 0.002, baseline_thickness * mean_line_height), hence
\* never below the integer part of 0.2% of the canvas height; when no line has
\* outline points there is no mean and it is the integer part of
\* canvas_height * 0.002.
C10_ThicknessIsTruncatedMax ==
    DrewBaselines =>
        LET t == annot.absolute_baseline_thickness[1]
            st == annot.mean_line_height
            bt == args.line_thickness
            h == img_shape[1]
        IN  /\ 1000 * (t + 1) > 2 * h
            /\ st.count = 0 => 1000 * t <= 2 * h
            /\ st.count > 0 =>
                  /\ 1000 * bt.den * st.count * t
                        <= Max2(2 * h * bt.den * st.count, 1000 * bt.num * st.sum)
                  /\ Max2(2 * h * bt.den * st.count, 1000 * bt.num * st.sum)
                        < 1000 * bt.den * st.count * (t + 1)

C10_Witness ==
    /\ DrewBaselines /\ annot.raised = ""
    /\ img_shape[1] = 600
    /\ annot.mean_line_height.count = 2
    /\ annot.mean_line_height.sum = 12
    /\ annot.absolute_baseline_thickness = Some(1)

====
